---------------------------- MODULE Spec2Model ----------------------------
(***************************************************************************)
(* The activity ledger, the rate limiter, the eligibility filter and the   *)
(* session orchestration of reddit-cultivate/scripts/reddit_cultivate.py.  *)
(*                                                                         *)
(* Time is counted in whole hours since the epoch; a calendar date is the  *)
(* number of the day an instant falls in.  A CommentRecord carries the     *)
(* fields the program reads back (post_id, date, status); a SessionRecord  *)
(* carries date, timestamp, comments_attempted and dry_run; a karma        *)
(* snapshot carries its total.  Titles, permalinks, text previews and the  *)
(* timestamps of comments and snapshots are written and never read.        *)
(* Seconds of delay are whole numbers.                                     *)
(***************************************************************************)
EXTENDS Integers, Sequences, FiniteSets, TLC

VARIABLES
    disk,          \* the ledger document at LOG_FILE
    now,           \* the wall clock, in hours
    pc,            \* position of the batch run (run_cultivate)
    decision,      \* what check_rate_limits returned (SpecRate)
    posts,         \* a raw batch handed to filter_posts (SpecFilter)
    filtered,      \* what filter_posts returned for it (SpecFilter)
    log,           \* run_cultivate's in-memory ledger
    loaded,        \* number of CommentRecords in log when it was loaded
    subs,          \* subreddits still to scan in this run
    all_posts,     \* eligible pool collected so far
    candidates,    \* the selected posts
    idx,           \* loop index i of the comment loop
    dry_run,       \* --dry-run
    max_comments,  \* max_comments after the hard cap
    session_start, \* session_start
    min_delay,     \* --min-delay
    max_delay,     \* --max-delay
    delay,         \* the delay drawn last in the comment loop
    modhash,       \* whether get_modhash() returned a token
    outcome,       \* how the last entry point ended
    info,          \* what check_login() answers for the identity in Chrome
    health,        \* what the last shadow-ban check reported
    calls,         \* requests and pauses of the entry point run last
    traced,        \* whether calls is kept at all
    target,        \* post_id of the single-target invocation run last
    file           \* the text in LOG_FILE while a save is under way (SpecSave)

vars == <<disk, now, pc, decision, posts, filtered, log, loaded, subs,
          all_posts, candidates, idx, dry_run, max_comments, session_start,
          min_delay, max_delay, delay, modhash, outcome, info, health,
          calls, traced, target, file>>

runvars == <<log, loaded, subs, all_posts, candidates, idx, dry_run,
             max_comments, session_start, min_delay, max_delay, delay,
             modhash>>

env == <<info, health, traced, target, file>>

----------------------------------------------------------------------------
(* Configuration *)

MAX_COMMENTS_PER_SESSION == 5
MAX_SESSIONS_PER_DAY == 2
MIN_HOURS_BETWEEN_SESSIONS == 6
MAX_POST_AGE_HOURS == 6
KARMA_HISTORY_KEEP == 100
MIN_SAFE_SCORE == 1
MAX_SAFE_SCORE == 500
HoursPerDay == 24

(* Bounds of the model *)

MaxInitSessions == 3
MaxInitComments == 10
MaxOtherComments == 1
MaxBatch == 2
MaxFetch == 1
MaxRecords == 2
MaxClock == 24

----------------------------------------------------------------------------
(* Helpers *)

\* datetime.strftime("%Y-%m-%d") of an instant
DateOf(t) == t \div HoursPerDay

\* dict.get(key, default)
Get(d, key, default) == IF key \in DOMAIN d THEN d[key] ELSE default

Range(s) == {s[k] : k \in 1..Len(s)}

SeqsUpTo(S, n) == UNION {[1..k -> S] : k \in 0..n}

RECURSIVE SeqMax(_)
SeqMax(s) ==
    IF Len(s) = 1 THEN s[1]
    ELSE LET m == SeqMax(Tail(s)) IN IF s[1] >= m THEN s[1] ELSE m

EmptyLog == [comments |-> <<>>, sessions |-> <<>>, karma_history |-> <<>>]

NoDecision == [allowed |-> FALSE, reason |-> "none"]

\* what check_login() can answer: a named identity, a null name, and the
\* error dict of an unreadable reply
LoggedOut == [name |-> "", total_karma |-> 0]
Unreadable == [error |-> "Failed to check login"]
Identities == {[name |-> "me", total_karma |-> 7], LoggedOut, Unreadable}

\* an identity check that takes any reply but the error dict for a login
HasNameUnlessError(i) == "error" \notin DOMAIN i

\* no shadow-ban probe has been made
NoProbe == [error |-> "none"]

\* info.get("name") is truthy
HasName(i) == Get(i, "name", "") # ""

----------------------------------------------------------------------------
(* check_rate_limits *)

TodaySessions(l, t) ==
    SelectSeq(l.sessions, LAMBDA s : s.date = DateOf(t))

TodayComments(l, t) ==
    SelectSeq(l.comments, LAMBDA c : c.date = DateOf(t))

SessionCapReachedStrict(today_sessions) ==
    Len(today_sessions) > MAX_SESSIONS_PER_DAY

SessionCapReached(today_sessions) ==
    Len(today_sessions) >= MAX_SESSIONS_PER_DAY

\* max(today_sessions, key=timestamp), then its timestamp
LastTime(today_sessions) ==
    SeqMax([k \in 1..Len(today_sessions) |-> today_sessions[k].timestamp])

CooldownActiveInclusive(today_sessions, t) ==
    /\ Len(today_sessions) > 0
    /\ t - LastTime(today_sessions) <= MIN_HOURS_BETWEEN_SESSIONS

CooldownActive(today_sessions, t) ==
    /\ Len(today_sessions) > 0
    /\ t - LastTime(today_sessions) < MIN_HOURS_BETWEEN_SESSIONS

CommentCapReachedAllDates(l, t) ==
    Len(l.comments) >= MAX_COMMENTS_PER_SESSION * MAX_SESSIONS_PER_DAY

CommentCapReached(l, t) ==
    Len(TodayComments(l, t)) >= MAX_COMMENTS_PER_SESSION * MAX_SESSIONS_PER_DAY

ReasonSessions == "Already had sessions today"
ReasonCooldown == "Only h since last session"
ReasonComments == "Already posted comments today"
ReasonOK == "OK"

check_rate_limits_cooldown_first(l, t) ==
    LET today_sessions == TodaySessions(l, t) IN
    IF CooldownActive(today_sessions, t)
    THEN [allowed |-> FALSE, reason |-> ReasonCooldown]
    ELSE IF SessionCapReached(today_sessions)
    THEN [allowed |-> FALSE, reason |-> ReasonSessions]
    ELSE IF CommentCapReached(l, t)
    THEN [allowed |-> FALSE, reason |-> ReasonComments]
    ELSE [allowed |-> TRUE, reason |-> ReasonOK]

check_rate_limits(l, t) ==
    LET today_sessions == TodaySessions(l, t) IN
    IF SessionCapReached(today_sessions)
    THEN [allowed |-> FALSE, reason |-> ReasonSessions]
    ELSE IF CooldownActive(today_sessions, t)
    THEN [allowed |-> FALSE, reason |-> ReasonCooldown]
    ELSE IF CommentCapReached(l, t)
    THEN [allowed |-> FALSE, reason |-> ReasonComments]
    ELSE [allowed |-> TRUE, reason |-> ReasonOK]

----------------------------------------------------------------------------
(* is_already_commented, filter_posts *)

is_already_commented_wrong_key(l, post_id) ==
    \E k \in 1..Len(l.comments) : Get(l.comments[k], "id", "") = post_id

is_already_commented_live_only(l, post_id) ==
    \E k \in 1..Len(l.comments) :
        /\ Get(l.comments[k], "post_id", "") = post_id
        /\ l.comments[k].status # "dry_run"

is_already_commented(l, post_id) ==
    \E k \in 1..Len(l.comments) : Get(l.comments[k], "post_id", "") = post_id

TooOld(post, t) == t - Get(post, "created_utc", 0) > MAX_POST_AGE_HOURS

ExcludedAuthorDeletedOnly(post) == Get(post, "author", "") \in {"[deleted]"}

ExcludedAuthor(post) ==
    Get(post, "author", "") \in {"[deleted]", "AutoModerator"}

RiskyScoreZeroAllowed(post) ==
    LET score == Get(post, "score", 0) IN
    score < 0 \/ score > MAX_SAFE_SCORE

RiskyScore(post) ==
    LET score == Get(post, "score", 0) IN
    score < MIN_SAFE_SCORE \/ score > MAX_SAFE_SCORE

\* a filter that hands back what it keeps last first
filter_posts_reversed(batch, l, t) ==
    LET kept == SelectSeq(batch, LAMBDA post :
                    /\ ~is_already_commented(l, Get(post, "id", ""))
                    /\ ~TooOld(post, t)
                    /\ ~ExcludedAuthor(post)
                    /\ ~RiskyScore(post))
    IN [k \in 1..Len(kept) |-> kept[Len(kept) + 1 - k]]

filter_posts(batch, l, t) ==
    SelectSeq(batch, LAMBDA post :
        /\ ~is_already_commented(l, Get(post, "id", ""))
        /\ ~TooOld(post, t)
        /\ ~ExcludedAuthor(post)
        /\ ~RiskyScore(post))

----------------------------------------------------------------------------
(* Records *)

\* run_cultivate, "Log the attempt"; run_post_single_comment, "Log it"
CommentRecord(post_id, date, status) ==
    [post_id |-> post_id, date |-> date, status |-> status]

\* run_cultivate, "Record session"
SessionRecord(date, timestamp, n, dry) ==
    [date |-> date, timestamp |-> timestamp, comments_attempted |-> n,
     dry_run |-> dry]

\* one element of get_rising_posts' list
Post(id, author, score, created_utc) ==
    [id |-> id, author |-> author, score |-> score, created_utc |-> created_utc]

Statuses == <<"pending", "posted", "dry_run">>

----------------------------------------------------------------------------
(* The rate limiter on its own: every ledger of RateLedgers at every      *)
(* instant of RateNows.                                                    *)

RateTimes == {18, 21, 27}
RateNows == {21, 24, 27, 30, 33}

RateSessions ==
    UNION {{SessionRecord(DateOf(t), t, 0, FALSE),
            SessionRecord(DateOf(t) + 1, t, 0, FALSE)} : t \in RateTimes}

\* b records dated day 0 followed by a records dated day 1, of all statuses
RateComments(b, a) ==
    [k \in 1..(b + a) |->
        CommentRecord("t3_x", IF k <= b THEN 0 ELSE 1, Statuses[(k % 3) + 1])]

RateLedgers ==
    {[comments |-> RateComments(b, a), sessions |-> ss, karma_history |-> <<>>] :
        b \in 0..MaxOtherComments, a \in 0..MaxInitComments,
        ss \in SeqsUpTo(RateSessions, MaxInitSessions)}

RunIdle ==
    /\ log = EmptyLog
    /\ loaded = 0
    /\ subs = <<>>
    /\ all_posts = <<>>
    /\ candidates = <<>>
    /\ idx = 0
    /\ dry_run = FALSE
    /\ max_comments = 0
    /\ session_start = 0
    /\ min_delay = 0
    /\ max_delay = 0
    /\ delay = 0
    /\ modhash = FALSE

\* the process exits: its locals are gone
RunExit ==
    /\ log' = EmptyLog
    /\ loaded' = 0
    /\ subs' = <<>>
    /\ all_posts' = <<>>
    /\ candidates' = <<>>
    /\ idx' = 0
    /\ dry_run' = FALSE
    /\ max_comments' = 0
    /\ session_start' = 0
    /\ min_delay' = 0
    /\ max_delay' = 0
    /\ delay' = 0
    /\ modhash' = FALSE

InitRate ==
    /\ disk \in RateLedgers
    /\ now \in RateNows
    /\ info = LoggedOut
    /\ health = NoProbe
    /\ calls = <<>>
    /\ traced = FALSE
    /\ target = ""
    /\ file = <<>>
    /\ pc = "Idle"
    /\ decision = NoDecision
    /\ posts = <<>>
    /\ filtered = <<>>
    /\ outcome = "none"
    /\ RunIdle

\* ok, reason = check_rate_limits(load_log())
Evaluate ==
    /\ pc = "Idle"
    /\ decision' = check_rate_limits(disk, now)
    /\ pc' = "Evaluated"
    /\ UNCHANGED <<disk, now, posts, filtered, outcome, runvars, env, calls>>

NextRate == Evaluate

SpecRate == InitRate /\ [][NextRate]_vars

----------------------------------------------------------------------------
(* The eligibility filter on its own.                                      *)

FilterNow == HoursPerDay + 6

FilterComments ==
    {CommentRecord("t3_a", d, s) : d \in {0, 1}, s \in Range(Statuses)}

FilterLedgers ==
    {[comments |-> cs, sessions |-> <<>>, karma_history |-> <<>>] :
        cs \in {<<>>} \cup {<<c>> : c \in FilterComments}
               \cup {<<CommentRecord("t3_b", 1, "posted"), c>> :
                        c \in {CommentRecord("t3_a", 0, "dry_run")}}}

FilterPosts ==
    {Post(id, au, sc, FilterNow - age) :
        id \in {"t3_a", "t3_c"}, au \in {"alice", "AutoModerator"},
        sc \in {0, 1, 500, 501}, age \in {6, 7}}
    \cup {Post("t3_c", "[deleted]", 10, FilterNow - 1),
          Post("t3_c", "alice", 10, FilterNow + 1),
          [id |-> "t3_c", author |-> "alice", created_utc |-> FilterNow - 1],
          [id |-> "t3_c", author |-> "alice", score |-> 10],
          [id |-> "t3_c", score |-> 10, created_utc |-> FilterNow - 1]}

InitFilter ==
    /\ disk \in FilterLedgers
    /\ now = FilterNow
    /\ info = LoggedOut
    /\ health = NoProbe
    /\ calls = <<>>
    /\ traced = FALSE
    /\ target = ""
    /\ file = <<>>
    /\ pc = "Idle"
    /\ decision = NoDecision
    /\ posts \in SeqsUpTo(FilterPosts, MaxBatch)
    /\ filtered = <<>>
    /\ outcome = "none"
    /\ RunIdle

\* filtered = filter_posts(posts, log)
ApplyFilter ==
    /\ pc = "Idle"
    /\ filtered' = filter_posts(posts, disk, now)
    /\ pc' = "Filtered"
    /\ UNCHANGED <<disk, now, decision, posts, outcome, runvars, env, calls>>

NextFilter == ApplyFilter

SpecFilter == InitFilter /\ [][NextFilter]_vars

----------------------------------------------------------------------------
(* The entry points: run_cultivate step by step, run_post_single_comment   *)
(* and run_check_only as other invocations against the same ledger file.   *)

StartClock == HoursPerDay - 6
TickHours == {6}
Requests == {-1, 1, 7}
SubredditLists == {<<"A">>, <<"A", "A">>}
PostIds == {"t3_a", "t3_b"}
DelayRanges == {<<-1, 1>>}

Min(a, b) == IF a <= b THEN a ELSE b

Max(a, b) == IF a >= b THEN a ELSE b

\* s[:n]
PySlice(s, n) ==
    IF n >= 0 THEN SubSeq(s, 1, Min(n, Len(s)))
    ELSE SubSeq(s, 1, Max(Len(s) + n, 0))

\* the orders random.shuffle can leave a list in
Shuffles(s) ==
    {[k \in 1..Len(s) |-> s[p[k]]] : p \in Permutations(1..Len(s))}

\* delays drawn a second beyond either end
UniformWide(a, b) == (Min(a, b) - 1)..(Max(a, b) + 1)

\* the values random.uniform(a, b) can return, in whole seconds
Uniform(a, b) == Min(a, b)..Max(a, b)

\* what rising.json can hold at instant t: fresh posts, a moderator post,
\* a post without an author
WorldPosts(t) ==
    {Post(id, "alice", 10, t) : id \in PostIds}
    \cup {Post("t3_a", "AutoModerator", 10, t),
          [id |-> "t3_b", score |-> 10, created_utc |-> t]}

\* the fields the comment loop indexes without a default
Complete(post) == "id" \in DOMAIN post /\ "author" \in DOMAIN post

\* a turn that upvotes and posts whatever the mode
BatchRequestsAlways(dry) == <<"vote", "post">>

\* the requests one turn of the comment loop makes for its candidate: the
\* dry branch prints what it would do, the live branch prints the command
\* that posts by hand
BatchRequests(dry) == <<>>

\* a live attempt logged as posted
AttemptStatusPosted(dry) == IF dry THEN "dry_run" ELSE "posted"

\* "status": "dry_run" if dry_run else "pending"
AttemptStatus(dry) == IF dry THEN "dry_run" ELSE "pending"

\* a ledger whose record for the same post is replaced by the new one
AppendCommentReplacing(l, rec) ==
    [l EXCEPT !.comments =
        Append(SelectSeq(@, LAMBDA c : c.post_id # rec.post_id), rec)]

\* log["comments"].append({...})
AppendComment(l, rec) == [l EXCEPT !.comments = Append(@, rec)]

\* number of records in a ledger document
Size(l) == Len(l.comments) + Len(l.sessions) + Len(l.karma_history)

\* the requests of an invocation with more of them, where they are kept
Record(c, more) == IF traced THEN c \o more ELSE c

\* what the token request can come back as: a token, the empty string of a
\* session without one, the error the wrapper's catch writes when the
\* script throws, and a page title that is not JSON
TokenReplies == {"uh1", "", "threw", "garbled"}

\* get_modhash(): json.loads of the title, "" where that fails; the error
\* payload is a dict, written "{error}"
get_modhash(reply) ==
    CASE reply = "threw" -> "{error}"
      [] reply = "garbled" -> ""
      [] OTHER -> reply

\* a token check that lets every answer through
NeverMissing(m) == FALSE

\* "not modhash"
Missing(m) == m = ""

\* how the token request is kept in calls
TokenCall(m) ==
    CASE m = "" -> <<"token", "no-token">>
      [] m = "{error}" -> <<"token", "bad-token">>
      [] OTHER -> <<"token">>

\* what the listing request of one subreddit can come back as: a list of
\* posts, the error payload, JSON of another type, and a title that is not
\* JSON
FetchReplies(t) ==
    {[kind |-> "list", posts |-> batch] :
        batch \in SeqsUpTo(WorldPosts(t), MaxFetch)}
    \cup {[kind |-> "error"], [kind |-> "other"], [kind |-> "text"]}

\* get_rising_posts(sub): the list, [] for everything else
get_rising_posts(title) == IF title.kind = "list" THEN title.posts ELSE <<>>

\* how the listing request is kept in calls
FetchCall(title) ==
    IF title.kind = "list" THEN <<"fetch">> ELSE <<"fetch", "fetch-failed">>

Init ==
    /\ disk = EmptyLog
    /\ now = StartClock
    /\ info \in Identities
    /\ health = NoProbe
    /\ calls = <<>>
    /\ traced = FALSE
    /\ target = ""
    /\ file = <<>>
    /\ pc = "Idle"
    /\ decision = NoDecision
    /\ posts = <<>>
    /\ filtered = <<>>
    /\ outcome = "none"
    /\ RunIdle

\* time passes, in or between invocations
Tick ==
    /\ \E d \in TickHours : now + d <= MaxClock /\ now' = now + d
    /\ UNCHANGED <<disk, pc, decision, posts, filtered, outcome, runvars, env,
                   calls>>

\* run_cultivate is entered with --max-comments among reqs and --subreddits
\* among lists: the hard cap on max_comments
Entered(reqs, lists) ==
    /\ pc \in {"Idle", "Done", "Aborted", "Crashed"}
    /\ \E req \in reqs, dry \in BOOLEAN, sl \in lists, range \in DelayRanges :
        /\ max_comments' = Min(req, MAX_COMMENTS_PER_SESSION)
        /\ dry_run' = dry
        /\ subs' = sl
        /\ min_delay' = range[1]
        /\ max_delay' = range[2]
    /\ log' = EmptyLog
    /\ loaded' = 0
    /\ all_posts' = <<>>
    /\ candidates' = <<>>
    /\ idx' = 0
    /\ session_start' = 0
    /\ delay' = 0
    /\ modhash' = FALSE
    /\ calls' = <<>>
    /\ outcome' = "none"
    /\ pc' = "Authenticating"
    /\ UNCHANGED <<disk, now, decision, posts, filtered, env>>

\* python3 reddit_cultivate.py --subreddits ... --max-comments ...
Start ==
    /\ Size(disk) < MaxRecords
    /\ Entered(Requests, SubredditLists)

\* info = check_login()
CheckLogin ==
    /\ pc = "Authenticating"
    /\ calls' = Record(calls, <<"login">>)
    /\ IF HasName(info)
       THEN pc' = "PolicyCheck" /\ UNCHANGED <<outcome, runvars>>
       ELSE pc' = "Aborted" /\ outcome' = "Not logged into Reddit" /\ RunExit
    /\ UNCHANGED <<disk, now, decision, posts, filtered, env>>

\* a policy check whose verdict is printed and not obeyed
PolicyCheckAdvisory ==
    /\ pc = "PolicyCheck"
    /\ log' = disk
    /\ loaded' = Len(disk.comments)
    /\ pc' = "Token"
    /\ UNCHANGED <<outcome, subs, all_posts, candidates, idx, dry_run,
                   max_comments, session_start, delay, min_delay, max_delay,
                   modhash>>
    /\ UNCHANGED <<disk, now, decision, posts, filtered, env, calls>>

\* log = load_log(); ok, reason = check_rate_limits(log)
PolicyCheck ==
    /\ pc = "PolicyCheck"
    /\ LET verdict == check_rate_limits(disk, now) IN
        IF verdict.allowed
        THEN /\ log' = disk
             /\ loaded' = Len(disk.comments)
             /\ pc' = "Token"
             /\ UNCHANGED <<outcome, subs, all_posts, candidates, idx,
                            dry_run, max_comments, session_start, delay,
                            min_delay, max_delay, modhash>>
        ELSE /\ pc' = "Aborted"
             /\ outcome' = verdict.reason
             /\ RunExit
    /\ UNCHANGED <<disk, now, decision, posts, filtered, env, calls>>

\* modhash = get_modhash(); random.shuffle(subreddits)
GetModhash ==
    /\ pc = "Token"
    /\ \E reply \in TokenReplies :
        LET token == get_modhash(reply) IN
        /\ calls' = Record(calls, TokenCall(token))
        /\ IF Missing(token) /\ ~dry_run
           THEN pc' = "Aborted" /\ outcome' = "Could not get modhash" /\ RunExit
           ELSE
             /\ pc' = "Fetching"
             /\ modhash' = (token # "")
             /\ subs' \in Shuffles(subs)
             /\ UNCHANGED <<outcome, log, loaded, all_posts, candidates, idx,
                            dry_run, max_comments, session_start, delay,
                            min_delay, max_delay>>
    /\ UNCHANGED <<disk, now, decision, posts, filtered, env>>

\* a scan that gives up the remaining subreddits when a listing fails
FetchAbandoning ==
    /\ pc = "Fetching"
    /\ subs # <<>>
    /\ \E title \in FetchReplies(now) :
        /\ calls' = Record(calls, FetchCall(title))
        /\ all_posts' =
            all_posts \o filter_posts(get_rising_posts(title), log, now)
        /\ subs' = IF title.kind = "list" THEN Tail(subs) ELSE <<>>
    /\ UNCHANGED <<disk, now, pc, decision, posts, filtered, outcome, log,
                   loaded, candidates, idx, dry_run, max_comments,
                   session_start, delay, min_delay, max_delay, modhash, env>>

\* a scan that asks again for a listing that failed
FetchRetrying ==
    /\ pc = "Fetching"
    /\ subs # <<>>
    /\ \E title \in FetchReplies(now) :
        /\ calls' = Record(calls, FetchCall(title))
        /\ all_posts' =
            all_posts \o filter_posts(get_rising_posts(title), log, now)
        /\ subs' = IF title.kind = "list" THEN Tail(subs) ELSE subs
    /\ Len(calls) < 8
    /\ UNCHANGED <<disk, now, pc, decision, posts, filtered, outcome, log,
                   loaded, candidates, idx, dry_run, max_comments,
                   session_start, delay, min_delay, max_delay, modhash, env>>

\* one turn of "for sub in subreddits":
\* posts = get_rising_posts(sub); all_posts.extend(filter_posts(posts, log))
Fetch ==
    /\ pc = "Fetching"
    /\ subs # <<>>
    /\ \E title \in FetchReplies(now) :
        /\ calls' = Record(calls, FetchCall(title))
        /\ all_posts' =
            all_posts \o filter_posts(get_rising_posts(title), log, now)
    /\ subs' = Tail(subs)
    /\ UNCHANGED <<disk, now, pc, decision, posts, filtered, outcome, log,
                   loaded, candidates, idx, dry_run, max_comments,
                   session_start, delay, min_delay, max_delay, modhash, env>>

\* a run that records a session of no comments when nothing is eligible
NoEligibleLogged ==
    /\ pc = "Fetching"
    /\ subs = <<>>
    /\ all_posts = <<>>
    /\ disk' = [log EXCEPT !.sessions = Append(@,
            SessionRecord(DateOf(now), now, 0, dry_run))]
    /\ pc' = "Done"
    /\ outcome' = "No eligible posts found"
    /\ RunExit
    /\ UNCHANGED <<now, decision, posts, filtered, env, calls>>

\* "if not all_posts: return"
NoEligible ==
    /\ pc = "Fetching"
    /\ subs = <<>>
    /\ all_posts = <<>>
    /\ pc' = "Done"
    /\ outcome' = "No eligible posts found"
    /\ RunExit
    /\ UNCHANGED <<disk, now, decision, posts, filtered, env, calls>>

\* random.shuffle(all_posts); candidates = all_posts[:max_comments]
\* (all_posts and max_comments are not read again, but for the closing
\* print of len(all_posts))
Select ==
    /\ pc = "Fetching"
    /\ subs = <<>>
    /\ all_posts # <<>>
    /\ \E sh \in Shuffles(all_posts) :
        candidates' = PySlice(sh, max_comments)
    /\ all_posts' = <<>>
    /\ max_comments' = 0
    /\ session_start' = now
    /\ idx' = 0
    /\ pc' = "Acting"
    /\ UNCHANGED <<disk, now, decision, posts, filtered, outcome, log, loaded,
                   subs, dry_run, delay, min_delay, max_delay, modhash, env,
                   calls>>

\* one turn of "for i, post in enumerate(candidates)": the placeholder is
\* printed (no request is made in either mode), the attempt is appended to
\* the in-memory ledger, and before another turn a delay is drawn and, in a
\* live run, slept; time.sleep raises ValueError on a negative delay
Act ==
    /\ pc = "Acting"
    /\ idx < Len(candidates)
    /\ LET post == candidates[idx + 1]
           appended == AppendComment(log,
                CommentRecord(post.id, DateOf(now), AttemptStatus(dry_run)))
           requested == Record(calls, BatchRequests(dry_run))
       IN
        IF ~Complete(post)
        THEN /\ pc' = "Crashed"
             /\ outcome' = "KeyError"
             /\ RunExit
             /\ UNCHANGED calls
        ELSE IF idx + 1 = Len(candidates)
        THEN /\ log' = appended
             /\ idx' = idx + 1
             /\ calls' = requested
             /\ UNCHANGED <<pc, outcome, loaded, subs, all_posts, candidates,
                            dry_run, max_comments, session_start, delay,
                            min_delay, max_delay, modhash>>
        ELSE \E d \in Uniform(min_delay, max_delay) :
            IF ~dry_run /\ d < 0
            THEN /\ pc' = "Crashed"
                 /\ outcome' = "ValueError"
                 /\ RunExit
                 /\ calls' = requested
            ELSE /\ log' = appended
                 /\ idx' = idx + 1
                 /\ delay' = d
                 /\ calls' = IF dry_run THEN requested
                             ELSE Record(requested, <<"pause">>)
                 /\ UNCHANGED <<pc, outcome, loaded, subs, all_posts,
                                candidates, dry_run, max_comments,
                                session_start, min_delay, max_delay, modhash>>
    /\ UNCHANGED <<disk, now, decision, posts, filtered, env>>

\* log["sessions"].append(...); save_log(log)
Logging ==
    /\ pc = "Acting"
    /\ idx = Len(candidates)
    /\ disk' = [log EXCEPT !.sessions = Append(@,
            SessionRecord(DateOf(now), session_start, Len(candidates), dry_run))]
    /\ pc' = "Done"
    /\ outcome' = "Session complete"
    /\ RunExit
    /\ UNCHANGED <<now, decision, posts, filtered, env, calls>>

\* Where another invocation is interleaved with the batch run: between
\* runs, right after the run has loaded the ledger and right before it
\* saves it.  The run reads and writes the ledger file nowhere else.
Interleave ==
    \/ pc \in {"Idle", "Done", "Aborted", "Crashed", "Token"}
    \/ pc = "Acting" /\ idx = Len(candidates)

\* a ledger that keeps the first snapshots and drops the new one
KeepFirst(history) ==
    SubSeq(history, 1, Min(Len(history), KARMA_HISTORY_KEEP))

\* history[-100:]
KeepLast(history) ==
    SubSeq(history, Max(1, Len(history) - KARMA_HISTORY_KEEP + 1), Len(history))

\* the karma snapshot of an identity
Snapshot(i) == [total |-> Get(i, "total_karma", 0)]

\* what the vote request can come back as: resp.ok either way, the error
\* payload, and a title that is not JSON
VoteReplies == {"true", "false", "threw", "garbled"}

\* upvote_post(post_id, modhash): json.loads(result) == True, False where
\* that fails
upvote_post(reply) == reply = "true"

\* how the vote request is kept in calls
VoteCall(voted) == IF voted THEN <<"vote">> ELSE <<"vote", "vote-failed">>

\* what the comment request can come back as: an answer without errors, an
\* answer with errors (a rate limit, a CAPTCHA, a locked thread), the error
\* payload, and a title that is not JSON
PostReplies == {"posted", "rejected", "captcha", "locked", "threw", "garbled"}

\* post_comment(parent_id, text, modhash)
post_comment(reply) ==
    CASE reply = "posted" -> [success |-> TRUE, errors |-> <<>>]
      [] reply = "rejected" -> [success |-> FALSE, errors |-> <<"RATELIMIT">>]
      [] reply = "captcha" -> [success |-> FALSE, errors |-> <<"BAD_CAPTCHA">>]
      [] reply = "locked" -> [success |-> FALSE,
                              errors |-> <<"THREAD_LOCKED">>]
      [] reply = "threw" -> [error |-> "script threw"]
      [] OTHER -> [success |-> FALSE,
                   errors |-> <<"Failed to parse response">>]

\* a reading of the answer that takes every answer for a success
SucceededAlways(result) == TRUE

\* result.get("success")
Succeeded(result) == Get(result, "success", FALSE)

\* how the comment request is kept in calls
PostCall(result) ==
    IF Get(result, "success", FALSE) THEN <<"post">>
    ELSE <<"post", "post-failed">>

\* what is printed after "Failed: {errors}": a warning for a rate limit, else
\* one for a CAPTCHA, else nothing more
Failure(errors) ==
    IF "RATELIMIT" \in Range(errors) THEN "Rate limited by Reddit"
    ELSE IF "BAD_CAPTCHA" \in Range(errors) THEN "CAPTCHA required"
    ELSE "Failed"

\* run_post_single_comment(post_id, text) on ledger l at instant t, given
\* the identity and what get_modhash, upvote_post and post_comment
\* returned: the ledger it leaves, the requests it made (the sleep between
\* vote and post among them) and its last message
run_post_single_comment(l, t, post_id, i, token, voted, result) ==
    IF ~HasName(i)
    THEN [log |-> l, calls |-> <<"login">>, outcome |-> "Not logged in"]
    ELSE IF Missing(token)
    THEN [log |-> l, calls |-> <<"login">> \o TokenCall(token),
          outcome |-> "Could not get modhash"]
    ELSE LET requested == <<"login">> \o TokenCall(token) \o VoteCall(voted)
                          \o <<"pause">> \o PostCall(result)
         IN
         IF Succeeded(result)
         THEN [log |-> AppendComment(l,
                        CommentRecord(post_id, DateOf(t), "posted")),
               calls |-> requested, outcome |-> "Comment posted"]
         ELSE [log |-> l, calls |-> requested,
               outcome |-> Failure(Get(result, "errors", <<>>))]

\* a status check that saves a fresh document around the history
run_check_only_fresh(l, i) ==
    IF ~HasName(i)
    THEN [log |-> l, calls |-> <<"login">>, outcome |-> "Not logged in"]
    ELSE [log |-> [EmptyLog EXCEPT !.karma_history =
                        KeepLast(Append(l.karma_history, Snapshot(i)))],
          calls |-> <<"login">>, outcome |-> "Logged in"]

\* run_check_only() on ledger l, given the identity: the rate-limit verdict
\* and the karma trend are printed; the snapshot is appended and the ledger
\* saved
run_check_only(l, i) ==
    IF "error" \in DOMAIN i
    THEN [log |-> l, calls |-> <<"login">>, outcome |-> i.error]
    ELSE IF ~HasName(i)
    THEN [log |-> l, calls |-> <<"login">>,
          outcome |-> "Not logged into Reddit in Chrome"]
    ELSE [log |-> [l EXCEPT !.karma_history = KeepLast(Append(@, Snapshot(i)))],
          calls |-> <<"login">>, outcome |-> "Logged in"]

\* what the profile request of check_shadowban can come back as: a 404, any
\* other status with a JSON body, a body that is not JSON (the script's
\* catch answers with an error), and a page title that is not JSON at all
Probes == {"404", "200", "threw", "garbled"}

\* the result kept when the identity check of the probe found no name
NotProbed == [error |-> "Not logged in"]

\* check_shadowban(username); Python's True and False are written "true"
\* and "false" next to the string "unknown"
check_shadowban(probe) ==
    CASE probe = "404" -> [shadowbanned |-> "true", status |-> 404]
      [] probe = "200" -> [shadowbanned |-> "false", status |-> 200]
      [] probe = "threw" -> [error |-> "Unexpected token"]
      [] OTHER -> [shadowbanned |-> "unknown", error |-> "Could not check"]

\* how the profile request is kept in calls
ProbeCall(probe) ==
    CASE probe = "404" -> <<"probe", "probe-404">>
      [] probe = "200" -> <<"probe", "probe-200">>
      [] OTHER -> <<"probe", "probe-failed">>

\* the message run_shadowban_check() prints for a result
Verdict(result) ==
    IF Get(result, "shadowbanned", "none") \in {"true", "unknown"}
    THEN "SHADOWBAN DETECTED"
    ELSE IF Get(result, "shadowbanned", "none") = "false"
    THEN "NOT shadowbanned"
    ELSE "Could not determine shadowban status"

\* run_post_single_comment beside a batch run: what it does to the ledger
\* (without a token it leaves the ledger as a failed post does)
PostSingle ==
    /\ Interleave
    /\ Size(disk) < MaxRecords
    /\ \E post_id \in PostIds, reply \in PostReplies :
        disk' = run_post_single_comment(disk, now, post_id, info, "uh1",
                                        TRUE, post_comment(reply)).log
    /\ UNCHANGED <<now, pc, decision, posts, filtered, outcome, runvars, env,
                   calls>>

\* run_check_only beside a batch run: what it does to the ledger
CheckOnly ==
    /\ Interleave
    /\ Size(disk) < MaxRecords
    /\ disk' = run_check_only(disk, info).log
    /\ UNCHANGED <<now, pc, decision, posts, filtered, outcome, runvars, env,
                   calls>>

Next ==
    \/ Tick
    \/ Start
    \/ CheckLogin
    \/ PolicyCheck
    \/ GetModhash
    \/ Fetch
    \/ NoEligible
    \/ Select
    \/ Act
    \/ Logging
    \/ PostSingle
    \/ CheckOnly

Spec == Init /\ [][Next]_vars

----------------------------------------------------------------------------
(* The entry points one after another, from ledgers of every shape, with   *)
(* what each invocation requested and printed kept in view.                *)

Terminal == {"Idle", "Done", "Aborted", "Crashed"}

\* h snapshots of before, oldest first, numbered -1, -2, ... by their totals
History(h) == [k \in 1..h |-> [total |-> 0 - k]]

EntryLedgers ==
    {EmptyLog,
     [EmptyLog EXCEPT !.comments =
        <<CommentRecord("t3_a", DateOf(StartClock), "posted")>>],
     [EmptyLog EXCEPT !.sessions =
        <<SessionRecord(DateOf(StartClock), StartClock - 3, 0, FALSE)>>]}
    \cup {[comments |-> <<CommentRecord("t3_a", DateOf(StartClock), "posted")>>,
           sessions |-> <<SessionRecord(DateOf(StartClock), StartClock - 3,
                                        1, TRUE)>>,
           karma_history |-> History(h)] :
            h \in (KARMA_HISTORY_KEEP - 2)..KARMA_HISTORY_KEEP}

InitEntry ==
    /\ disk \in EntryLedgers
    /\ now = StartClock
    /\ info \in Identities
    /\ health = NoProbe
    /\ calls = <<>>
    /\ traced = TRUE
    /\ target = ""
    /\ file = <<>>
    /\ pc = "Idle"
    /\ decision = NoDecision
    /\ posts = <<>>
    /\ filtered = <<>>
    /\ outcome = "none"
    /\ RunIdle

\* run_post_single_comment(post_id, text) with whatever the requests
\* come back as
PostedSingle ==
    /\ pc \in Terminal
    /\ \E post_id \in PostIds, token \in TokenReplies, vote \in VoteReplies,
          reply \in PostReplies :
        LET out == run_post_single_comment(disk, now, post_id, info,
                        get_modhash(token), upvote_post(vote),
                        post_comment(reply)) IN
        /\ disk' = out.log
        /\ calls' = Record(<<>>, out.calls)
        /\ outcome' = out.outcome
        /\ target' = post_id
    /\ UNCHANGED <<now, pc, decision, posts, filtered, runvars, info, health,
                   traced, file>>

\* python3 reddit_cultivate.py --post-comment ID --text TEXT
RunPostSingleComment ==
    /\ Size(disk) < MaxRecords
    /\ PostedSingle

\* python3 reddit_cultivate.py --check-only
RunCheckOnly ==
    /\ pc \in Terminal
    /\ LET out == run_check_only(disk, info) IN
        /\ disk' = out.log
        /\ calls' = Record(<<>>, out.calls)
        /\ outcome' = out.outcome
    /\ UNCHANGED <<now, pc, decision, posts, filtered, runvars, env>>

\* python3 reddit_cultivate.py --check-shadowban
RunShadowbanCheck ==
    /\ pc \in Terminal
    /\ \E probe \in Probes :
        IF HasName(info)
        THEN /\ health' = check_shadowban(probe)
             /\ calls' = Record(<<>>, <<"login">> \o ProbeCall(probe))
             /\ outcome' = Verdict(health')
        ELSE /\ health' = NotProbed
             /\ calls' = Record(<<>>, <<"login">>)
             /\ outcome' = "Not logged in"
    /\ UNCHANGED <<disk, now, pc, decision, posts, filtered, runvars, info,
                   traced, target, file>>

NextEntry ==
    \/ Start
    \/ CheckLogin
    \/ PolicyCheck
    \/ GetModhash
    \/ Fetch
    \/ NoEligible
    \/ Select
    \/ Act
    \/ Logging
    \/ RunPostSingleComment
    \/ RunCheckOnly
    \/ RunShadowbanCheck

SpecEntry == InitEntry /\ [][NextEntry]_vars

----------------------------------------------------------------------------
(* The entry points with an operator who can interrupt a batch run.        *)

\* Ctrl-C while a batch run is under way, in a pause or between two steps:
\* KeyboardInterrupt is raised where the run stands and nothing in
\* run_cultivate or main catches it
Interrupt ==
    /\ pc \notin Terminal
    /\ pc' = "Crashed"
    /\ outcome' = "KeyboardInterrupt"
    /\ RunExit
    /\ UNCHANGED <<disk, now, decision, posts, filtered, env, calls>>

NextCancel ==
    \/ NextEntry
    \/ Interrupt

SpecCancel == InitEntry /\ [][NextCancel]_vars

----------------------------------------------------------------------------
(* save_log write by write, with the process killed on the way, and the    *)
(* load_log of the invocation that comes after.                            *)

MaxSnapshots == 1
MaxChunk == 2

\* the text json.dump writes, token by token: the braces, the three keys
\* and the records under them
Brace(b) == [brace |-> b]

Key(k) == [key |-> k]

Dump(l) ==
    <<Brace("{"), Key("comments")>> \o l.comments
    \o <<Key("sessions")>> \o l.sessions
    \o <<Key("karma_history")>> \o l.karma_history \o <<Brace("}")>>

\* where a token stands in a text, 0 if nowhere
Pos(text, token) ==
    IF \E n \in 1..Len(text) : text[n] = token
    THEN CHOOSE n \in 1..Len(text) : text[n] = token
    ELSE 0

\* json.load(f): the document of a text that is whole, JSONDecodeError for
\* an empty or a cut text
load_log(text) ==
    LET s == Pos(text, Key("sessions"))
        k == Pos(text, Key("karma_history"))
    IN
    IF /\ Len(text) >= 5
       /\ text[1] = Brace("{")
       /\ text[2] = Key("comments")
       /\ 2 < s /\ s < k
       /\ text[Len(text)] = Brace("}")
    THEN [ok |-> TRUE,
          doc |-> [comments |-> SubSeq(text, 3, s - 1),
                   sessions |-> SubSeq(text, s + 1, k - 1),
                   karma_history |-> SubSeq(text, k + 1, Len(text) - 1)]]
    ELSE [ok |-> FALSE, doc |-> EmptyLog]

\* ledgers a save can find in the file
SaveLedgers ==
    {[comments |-> c, sessions |-> s, karma_history |-> History(h)] :
        c \in {<<>>, <<CommentRecord("t3_a", DateOf(StartClock), "posted")>>},
        s \in {<<>>, <<SessionRecord(DateOf(StartClock), StartClock - 3, 1,
                                     FALSE)>>},
        h \in 0..MaxSnapshots}

\* what the three callers of save_log hand to it for a ledger they loaded
NewDocs(l) ==
    {AppendComment(l, CommentRecord(id, DateOf(StartClock), "posted")) :
        id \in PostIds}
    \cup {run_check_only(l, i).log : i \in {i \in Identities : HasName(i)}}
    \cup {[l EXCEPT !.sessions = Append(@,
                SessionRecord(DateOf(StartClock), StartClock, 0, dry))] :
            dry \in BOOLEAN}

InitSave ==
    /\ disk \in SaveLedgers
    /\ file = Dump(disk)
    /\ log \in NewDocs(disk)
    /\ now = StartClock
    /\ info = LoggedOut
    /\ health = NoProbe
    /\ calls = <<>>
    /\ traced = FALSE
    /\ target = ""
    /\ pc = "Saving"
    /\ decision = NoDecision
    /\ posts = <<>>
    /\ filtered = <<>>
    /\ outcome = "none"
    /\ loaded = 0
    /\ subs = <<>>
    /\ all_posts = <<>>
    /\ candidates = <<>>
    /\ idx = 0
    /\ dry_run = FALSE
    /\ max_comments = 0
    /\ session_start = 0
    /\ min_delay = 0
    /\ max_delay = 0
    /\ delay = 0
    /\ modhash = FALSE

savevars == <<now, decision, posts, filtered, loaded, subs, all_posts,
              candidates, idx, dry_run, max_comments, session_start,
              min_delay, max_delay, delay, modhash, info, health, calls,
              traced, target>>

\* open(LOG_FILE, 'w'): the file is cut to nothing
OpenForWriting ==
    /\ pc = "Saving"
    /\ file' = <<>>
    /\ pc' = "Writing"
    /\ UNCHANGED <<disk, log, outcome, savevars>>

\* json.dump(log, f, indent=2): the text reaches the file piece by piece
WriteChunk ==
    /\ pc = "Writing"
    /\ Len(file) < Len(Dump(log))
    /\ \E n \in 1..MaxChunk :
        file' = SubSeq(Dump(log), 1, Min(Len(file) + n, Len(Dump(log))))
    /\ UNCHANGED <<disk, log, pc, outcome, savevars>>

\* the with block ends: the save is done
CloseFile ==
    /\ pc = "Writing"
    /\ file = Dump(log)
    /\ disk' = log
    /\ pc' = "Saved"
    /\ UNCHANGED <<log, file, outcome, savevars>>

\* the process dies while save_log is writing
Kill ==
    /\ pc = "Writing"
    /\ pc' = "Killed"
    /\ UNCHANGED <<disk, log, file, outcome, savevars>>

\* log = load_log() in the invocation that comes after
LoadLog ==
    /\ pc \in {"Saved", "Killed"}
    /\ LET read == load_log(file) IN
        IF read.ok
        THEN pc' = "Loaded" /\ log' = read.doc /\ outcome' = "loaded"
        ELSE pc' = "Crashed" /\ log' = EmptyLog
             /\ outcome' = "JSONDecodeError"
    /\ UNCHANGED <<disk, file, savevars>>

NextSave ==
    \/ OpenForWriting
    \/ WriteChunk
    \/ CloseFile
    \/ Kill
    \/ LoadLog

SpecSave == InitSave /\ [][NextSave]_vars

----------------------------------------------------------------------------
(* Batch runs one after another over the turn of a day, with the hours     *)
(* passing between them and in the pauses of the comment loop (the         *)
(* requests of a run take seconds).                                        *)

RunsClock == HoursPerDay - 7
MaxRunsClock == 25
MaxSessions == 3

PassHours == {1, 6}

\* the ledger after one live session of one comment, six hours before the
\* first instant, and the ledger of a first use
RunsLedgers ==
    {EmptyLog,
     [comments |-> <<CommentRecord("t3_c", DateOf(RunsClock - 6), "pending")>>,
      sessions |-> <<SessionRecord(DateOf(RunsClock - 6), RunsClock - 6, 1,
                                   FALSE)>>,
      karma_history |-> <<>>]}

InitRuns ==
    /\ disk \in RunsLedgers
    /\ now = RunsClock
    /\ info \in {i \in Identities : HasName(i)}
    /\ health = NoProbe
    /\ calls = <<>>
    /\ traced = FALSE
    /\ target = ""
    /\ file = <<>>
    /\ pc = "Idle"
    /\ decision = NoDecision
    /\ posts = <<>>
    /\ filtered = <<>>
    /\ outcome = "none"
    /\ RunIdle

\* hours pass, between two runs or in the comment loop
Pass ==
    /\ pc \in Terminal \cup {"Acting"}
    /\ \E d \in PassHours : now + d <= MaxRunsClock /\ now' = now + d
    /\ UNCHANGED <<disk, pc, decision, posts, filtered, outcome, runvars, env,
                   calls>>

\* python3 reddit_cultivate.py --subreddits A --max-comments 1
StartOne ==
    /\ Len(disk.sessions) < MaxSessions
    /\ Entered({1}, {<<"A">>})

NextRuns ==
    \/ Pass
    \/ StartOne
    \/ CheckLogin
    \/ PolicyCheck
    \/ GetModhash
    \/ Fetch
    \/ NoEligible
    \/ Select
    \/ Act
    \/ Logging

SpecRuns == InitRuns /\ [][NextRuns]_vars

----------------------------------------------------------------------------
(* Single-target posts one after another on a ledger that holds some.      *)

\* the ledger after k single-target posts on one date
PostedLedger(k) ==
    [EmptyLog EXCEPT !.comments =
        [j \in 1..k |-> CommentRecord("t3_a", DateOf(StartClock), "posted")]]

InitPosts ==
    /\ disk \in {PostedLedger(k) : k \in (MaxInitComments - 2)..MaxInitComments}
    /\ now = StartClock
    /\ info \in Identities
    /\ health = NoProbe
    /\ calls = <<>>
    /\ traced = TRUE
    /\ target = ""
    /\ file = <<>>
    /\ pc = "Idle"
    /\ decision = NoDecision
    /\ posts = <<>>
    /\ filtered = <<>>
    /\ outcome = "none"
    /\ RunIdle

\* python3 reddit_cultivate.py --post-comment ID --text TEXT, once more
PostAgain ==
    /\ Len(disk.comments) <= MaxInitComments
    /\ PostedSingle

NextPosts == PostAgain

SpecPosts == InitPosts /\ [][NextPosts]_vars

----------------------------------------------------------------------------
(* What the claims say of a ledger, stated without the program's helpers.  *)

SessionsOn(l, d) == {k \in 1..Len(l.sessions) : l.sessions[k].date = d}

CommentsOn(l, d) == {k \in 1..Len(l.comments) : l.comments[k].date = d}

\* timestamp of the most recent session dated d
LatestOn(l, d) ==
    CHOOSE t \in {l.sessions[k].timestamp : k \in SessionsOn(l, d)} :
        \A k \in SessionsOn(l, d) : l.sessions[k].timestamp <= t

CapFails(l, t) == Cardinality(SessionsOn(l, DateOf(t))) >= MAX_SESSIONS_PER_DAY

CooldownFails(l, t) ==
    /\ SessionsOn(l, DateOf(t)) # {}
    /\ t - LatestOn(l, DateOf(t)) < MIN_HOURS_BETWEEN_SESSIONS

DailyFails(l, t) ==
    Cardinality(CommentsOn(l, DateOf(t)))
        >= MAX_COMMENTS_PER_SESSION * MAX_SESSIONS_PER_DAY

Deny(reason) == [allowed |-> FALSE, reason |-> reason]

\* C1: whenever the sessions dated today number at least
\* max-sessions-per-day, the evaluation denies and names the session cap.
C1_SessionCap ==
    (pc = "Evaluated" /\ CapFails(disk, now)) => decision = Deny(ReasonSessions)

\* exactly the cap, at least six hours after the latest of today's sessions
C1_Witness ==
    /\ pc = "Evaluated"
    /\ Cardinality(SessionsOn(disk, DateOf(now))) = MAX_SESSIONS_PER_DAY
    /\ now - LatestOn(disk, DateOf(now)) >= MIN_HOURS_BETWEEN_SESSIONS
    /\ decision = Deny(ReasonSessions)

\* C2: below the session cap and with a session dated today, the evaluation
\* denies for cooldown exactly when less than min-hours-between-sessions
\* have passed since the most recent of today's sessions.
C2_Cooldown ==
    (/\ pc = "Evaluated"
     /\ ~CapFails(disk, now)
     /\ SessionsOn(disk, DateOf(now)) # {})
    => (decision = Deny(ReasonCooldown)
            <=> now - LatestOn(disk, DateOf(now)) < MIN_HOURS_BETWEEN_SESSIONS)

\* exactly six hours elapsed, nothing else hit: allowed
C2_Witness ==
    /\ pc = "Evaluated"
    /\ Cardinality(SessionsOn(disk, DateOf(now))) = 1
    /\ now - LatestOn(disk, DateOf(now)) = MIN_HOURS_BETWEEN_SESSIONS
    /\ decision.allowed

\* C3: when neither the session cap nor the cooldown denies, the evaluation
\* denies for the daily comment cap exactly when today's CommentRecords, of
\* any status, number at least max-comments-per-session times
\* max-sessions-per-day.
C3_DailyCommentCap ==
    (pc = "Evaluated" /\ ~CapFails(disk, now) /\ ~CooldownFails(disk, now))
    => (decision = Deny(ReasonComments) <=> DailyFails(disk, now))

\* exactly ten records today, among them dry_run and pending ones, and one
\* record of another date
C3_Witness ==
    /\ pc = "Evaluated"
    /\ Cardinality(CommentsOn(disk, DateOf(now)))
           = MAX_COMMENTS_PER_SESSION * MAX_SESSIONS_PER_DAY
    /\ \E k \in CommentsOn(disk, DateOf(now)) : disk.comments[k].status = "dry_run"
    /\ \E k \in CommentsOn(disk, DateOf(now)) : disk.comments[k].status = "pending"
    /\ Len(disk.comments) > Cardinality(CommentsOn(disk, DateOf(now)))
    /\ decision = Deny(ReasonComments)

\* C4: the reason is that of the first failing rule in the order session
\* cap, cooldown, daily comment cap, and the evaluation allows exactly when
\* none of the three fails.
C4_RulePriority ==
    pc = "Evaluated" =>
        /\ decision =
             IF CapFails(disk, now) THEN Deny(ReasonSessions)
             ELSE IF CooldownFails(disk, now) THEN Deny(ReasonCooldown)
             ELSE IF DailyFails(disk, now) THEN Deny(ReasonComments)
             ELSE [allowed |-> TRUE, reason |-> ReasonOK]
        /\ decision.allowed <=>
             ~(CapFails(disk, now) \/ CooldownFails(disk, now)
                 \/ DailyFails(disk, now))

\* all three rules fail at once and the session cap is the one reported
C4_Witness ==
    /\ pc = "Evaluated"
    /\ CapFails(disk, now)
    /\ CooldownFails(disk, now)
    /\ DailyFails(disk, now)
    /\ decision = Deny(ReasonSessions)

----------------------------------------------------------------------------
(* What the claims say of a filtered batch.                                *)

LedgerIds(l) == {l.comments[k].post_id : k \in 1..Len(l.comments)}

\* a post that only a ledger entry can make ineligible
OtherwiseEligible(post, t) ==
    /\ DOMAIN post = {"id", "author", "score", "created_utc"}
    /\ post.author \notin {"[deleted]", "AutoModerator"}
    /\ post.score >= 1 /\ post.score <= 500
    /\ t - post.created_utc <= MAX_POST_AGE_HOURS

\* C6: no returned candidate has the post_id of any CommentRecord of the
\* ledger, whatever that record's status and date.
C6_NoRepeatTarget ==
    pc = "Filtered" =>
        \A k \in 1..Len(filtered) : filtered[k].id \notin LedgerIds(disk)

\* a post eligible but for a dry_run record of another date is offered and
\* a different post is returned
C6_Witness ==
    /\ pc = "Filtered"
    /\ \E k \in 1..Len(posts), j \in 1..Len(disk.comments) :
        /\ OtherwiseEligible(posts[k], now)
        /\ disk.comments[j].post_id = posts[k].id
        /\ disk.comments[j].status = "dry_run"
        /\ disk.comments[j].date # DateOf(now)
    /\ Len(filtered) = 1

\* C7: every returned candidate carries a score within [1, 500] and a
\* creation time at most max-post-age-hours before now.
C7_ScoreAndAge ==
    pc = "Filtered" =>
        \A k \in 1..Len(filtered) :
            /\ "score" \in DOMAIN filtered[k]
            /\ filtered[k].score >= 1 /\ filtered[k].score <= 500
            /\ "created_utc" \in DOMAIN filtered[k]
            /\ now - filtered[k].created_utc <= MAX_POST_AGE_HOURS

\* a post at both limits is returned next to one without a score
C7_Witness ==
    /\ pc = "Filtered"
    /\ \E k \in 1..Len(filtered) :
        filtered[k].score = 500
            /\ now - filtered[k].created_utc = MAX_POST_AGE_HOURS
    /\ \E k \in 1..Len(posts) : "score" \notin DOMAIN posts[k]

\* C8: no returned candidate is authored by "[deleted]" or "AutoModerator".
C8_ExcludedAuthors ==
    pc = "Filtered" =>
        \A k \in 1..Len(filtered) :
            Get(filtered[k], "author", "") \notin {"[deleted]", "AutoModerator"}

\* an AutoModerator post that nothing else excludes is offered and dropped
C8_Witness ==
    /\ pc = "Filtered"
    /\ \E k \in 1..Len(posts) :
        /\ DOMAIN posts[k] = {"id", "author", "score", "created_utc"}
        /\ posts[k].author = "AutoModerator"
        /\ posts[k].score = 1
        /\ now - posts[k].created_utc = MAX_POST_AGE_HOURS
        /\ posts[k].id \notin LedgerIds(disk)
    /\ filtered = <<>>
    /\ posts # <<>>

----------------------------------------------------------------------------
(* What the claims say of the ledger across invocations.                   *)

Live == {"posted", "pending"}

IsPrefix(a, b) == Len(a) <= Len(b) /\ SubSeq(b, 1, Len(a)) = a

\* C9 as stated: no two CommentRecords of the persisted ledger share a
\* post_id while both are posted or pending.
C9_Original ==
    \A j, k \in 1..Len(disk.comments) :
        (/\ j < k
         /\ disk.comments[j].post_id = disk.comments[k].post_id
         /\ disk.comments[j].status \in Live)
        => disk.comments[k].status \notin Live

\* C9, amended: no record a batch session has appended carries the post_id
\* of a record, of any status, of the ledger that session loaded.
C9_NoRepeatOfLoaded ==
    \A k \in (loaded + 1)..Len(log.comments) :
        \A j \in 1..loaded :
            log.comments[k].post_id # log.comments[j].post_id

\* a live session that loaded a posted record has appended a pending one
C9_Witness ==
    /\ pc = "Acting"
    /\ ~dry_run
    /\ loaded > 0
    /\ log.comments[1].status = "posted"
    /\ Len(log.comments) > loaded
    /\ log.comments[Len(log.comments)].status = "pending"

\* C10: every operation leaves the comments its process holds as a prefix of
\* what it holds or saves next: the single-target post and the status check
\* on the ledger file, the batch session from its load, through its comment
\* loop, to its save.
C10_AppendOnly ==
    [][/\ (pc' = pc /\ disk' # disk)
            => IsPrefix(disk.comments, disk'.comments)
       /\ (pc = "PolicyCheck" /\ pc' = "Token")
            => log'.comments = disk.comments
       /\ (pc \in {"Token", "Fetching", "Acting"}
            /\ pc' \in {"Token", "Fetching", "Acting"})
            => IsPrefix(log.comments, log'.comments)
       /\ (pc = "Acting" /\ pc' = "Done")
            => IsPrefix(log.comments, disk'.comments)]_vars

\* a session has saved a ledger that begins with the posted record it
\* loaded and goes on with the record it appended
C10_Witness ==
    /\ pc = "Done"
    /\ Len(disk.sessions) = 1
    /\ Len(disk.comments) >= 2
    /\ disk.comments[1].status = "posted"
    /\ disk.comments[2].status \in {"pending", "dry_run"}

(* What the claims say of the status check.  The snapshots a ledger starts *)
(* with have negative totals, -1 the oldest; a named identity's are not.   *)

Before(h) == {k \in 1..Len(h) : h[k].total < 0}

\* C11: the saved karma_history never holds more than 100 snapshots; what
\* it holds are the most recent ones in the order they were inserted (the
\* snapshots of before are a run of consecutive ones up to the last of
\* them, cut at the oldest end only when the history is full, and the
\* snapshots taken since follow them); after a status check the snapshot
\* it took is the last entry.
C11_KarmaHistoryCap ==
    LET h == disk.karma_history
        j == Cardinality(Before(h))
    IN
    /\ Len(h) <= 100
    /\ \A k \in 1..j : h[k].total < 0
    /\ \A k \in 1..(j - 1) : h[k + 1].total = h[k].total - 1
    /\ (j > 0 /\ h[1].total # 0 - 1) => Len(h) = 100
    /\ \A k \in (j + 1)..Len(h) : h[k] = [total |-> info.total_karma]
    /\ outcome = "Logged in" =>
            Len(h) > 0 /\ h[Len(h)] = [total |-> info.total_karma]

\* a full history has lost its two oldest snapshots to two status checks
C11_Witness ==
    /\ outcome = "Logged in"
    /\ Len(disk.karma_history) = 100
    /\ disk.karma_history[1].total = 0 - 3
    /\ disk.karma_history[98].total = 0 - 100
    /\ disk.karma_history[99].total = info.total_karma
    /\ disk.karma_history[100].total = info.total_karma

\* C12: a status check for a named identity adds exactly one snapshot, that
\* of the identity, at the end of the history (dropping the oldest entry of
\* a full history) and leaves comments and sessions as they were; two
\* checks in succession add two.
C12_StatusCheckFrame ==
    [][(pc' = pc /\ health' = health /\ outcome' = "Logged in") =>
        LET h == disk.karma_history
            g == disk'.karma_history
        IN
        /\ disk'.comments = disk.comments
        /\ disk'.sessions = disk.sessions
        /\ Len(g) = IF Len(h) < 100 THEN Len(h) + 1 ELSE 100
        /\ g[Len(g)] = [total |-> info.total_karma]
        /\ \A k \in 1..(Len(g) - 1) : g[k] = h[k + Len(h) + 1 - Len(g)]]_vars

\* two checks in succession on a ledger with a comment, a session and 98
\* snapshots
C12_Witness ==
    /\ outcome = "Logged in"
    /\ Len(disk.comments) = 1
    /\ Len(disk.sessions) = 1
    /\ Len(disk.karma_history) = 100
    /\ disk.karma_history[1].total = 0 - 1
    /\ disk.karma_history[98].total = 0 - 98
    /\ disk.karma_history[100].total = info.total_karma

----------------------------------------------------------------------------
(* What the claims say of a batch run.                                     *)

InRun == pc \in {"Authenticating", "PolicyCheck", "Token", "Fetching", "Acting"}

Count(what, c) == Cardinality({k \in 1..Len(c) : c[k] = what})

Fewest(a, b) == IF a <= b THEN a ELSE b

AtLeastZero(a) == IF a >= 0 THEN a ELSE 0

\* the records the run has appended to the ledger it loaded
Appended == SubSeq(log.comments, loaded + 1, Len(log.comments))

\* C13: when the shadow-ban probe of the identity has come back
\* shadowbanned, the batch run is never in its comment loop: it acts on no
\* candidate and appends no CommentRecord.
C13_ShadowbanGate ==
    ("shadowbanned" \in DOMAIN health /\ health.shadowbanned = "true")
        => (pc # "Acting" /\ Appended = <<>>)

\* C14: whatever count the caller asks for, the run selects as many
\* candidates as the smaller of the cap of five and the size of the pool,
\* bounded by the count asked for (none for a count below one), and it
\* appends no more than five CommentRecords.
C14_HardCap ==
    [][/\ (pc = "Fetching" /\ pc' = "Acting") =>
            /\ Len(candidates')
                 = AtLeastZero(Fewest(max_comments,
                                      Fewest(5, Len(all_posts))))
            /\ Len(candidates') <= 5
       /\ (pc = "Acting" /\ pc' = "Acting") =>
            Len(log'.comments) - loaded' <= 5]_vars

\* C15: the run that reaches Logging saves one more SessionRecord, whose
\* comments_attempted is the number of CommentRecords the run appended and
\* whose dry_run flag is the mode of the run; a dry run over e eligible
\* posts under a cap c selects and appends min(c, e) CommentRecords, all of
\* status dry_run.
C15_SessionSummary ==
    [][/\ (pc = "Fetching" /\ pc' = "Acting" /\ dry_run) =>
            Len(candidates')
                = AtLeastZero(Fewest(max_comments, Len(all_posts)))
       /\ (pc = "Acting" /\ pc' = "Done") =>
            /\ disk'.comments = log.comments
            /\ Len(Appended) = Len(candidates)
            /\ Len(disk'.sessions) = Len(log.sessions) + 1
            /\ SubSeq(disk'.sessions, 1, Len(log.sessions)) = log.sessions
            /\ disk'.sessions[Len(disk'.sessions)].comments_attempted
                 = Len(Appended)
            /\ disk'.sessions[Len(disk'.sessions)].dry_run = dry_run
            /\ dry_run =>
                \A k \in 1..Len(Appended) : Appended[k].status = "dry_run"]_vars

\* C16: a dry batch run issues neither a post nor a vote request, however
\* many candidates it has selected and whether or not a token came back.
C16_DryRunNoMutation ==
    (InRun /\ dry_run) => ("post" \notin Range(calls) /\ "vote" \notin Range(calls))

\* a dry run without a token has gone through two candidates
C16_Witness ==
    /\ pc = "Acting"
    /\ dry_run
    /\ ~modhash
    /\ Len(candidates) = 2
    /\ idx = 2
    /\ "token" \in Range(calls)
    /\ Len(Appended) = 2

\* C17 as stated: in a live batch run every candidate gone through has had
\* its post request made and its pending CommentRecord appended.
C17_Original ==
    (pc = "Acting" /\ ~dry_run) =>
        /\ Count("post", calls) = idx
        /\ Len(Appended) = idx
        /\ \A k \in 1..idx : Appended[k].status = "pending"

\* C17, amended: in a live batch run every candidate gone through has its
\* CommentRecord of status pending appended, in the order of selection, and
\* the run makes no post and no vote request.
C17_LivePendingOnly ==
    (pc = "Acting" /\ ~dry_run) =>
        /\ Len(Appended) = idx
        /\ \A k \in 1..idx :
            /\ Appended[k].post_id = candidates[k].id
            /\ Appended[k].status = "pending"
        /\ "post" \notin Range(calls)
        /\ "vote" \notin Range(calls)

\* a live run has gone through its two candidates
C17_Witness ==
    /\ pc = "Acting"
    /\ ~dry_run
    /\ modhash
    /\ idx = 2
    /\ Len(Appended) = 2
    /\ Appended[2].status = "pending"

NoDisplayName(i) == "name" \notin DOMAIN i \/ i.name = ""

\* C19: when the identity check gives no display name, no entry point
\* changes the ledger file or issues a fetch, token, post or vote request;
\* the batch run goes from Authenticating to Aborted, the single-target
\* post and the status check end with their not-logged-in message.
C19_NotLoggedIn ==
    [][NoDisplayName(info) =>
        /\ disk' = disk
        /\ Range(calls') \subseteq {"login"}
        /\ pc = "Authenticating" =>
            (pc' = "Aborted" /\ outcome' = "Not logged into Reddit")
        /\ pc' \in Terminal \cup {"Authenticating"}
        /\ outcome' \in {"none", "Not logged into Reddit", "Not logged in",
                         "Not logged into Reddit in Chrome",
                         "Failed to check login"}]_vars

\* with a null name, the batch run has aborted and then the single-target
\* post has refused, on a ledger that holds records
C19_Witness ==
    /\ info = LoggedOut
    /\ pc = "Aborted"
    /\ outcome = "Not logged in"
    /\ calls = <<"login">>
    /\ disk.comments # <<>>

\* C20: a batch run whose ledger a rule denies at PolicyCheck ends Aborted
\* with the reason of the first failing rule; it has made the identity
\* request and no other, and leaves the ledger file as it was.
C20_PolicyDenial ==
    [][(/\ pc = "PolicyCheck"
        /\ CapFails(disk, now) \/ CooldownFails(disk, now) \/ DailyFails(disk, now))
        => /\ pc' = "Aborted"
           /\ outcome' = (IF CapFails(disk, now) THEN ReasonSessions
                          ELSE IF CooldownFails(disk, now) THEN ReasonCooldown
                          ELSE ReasonComments)
           /\ disk' = disk
           /\ calls' = <<"login">>
           /\ log' = EmptyLog]_vars

\* a run has been denied for cooldown
C20_Witness ==
    /\ pc = "Aborted"
    /\ outcome = ReasonCooldown
    /\ calls = <<"login">>
    /\ Len(disk.sessions) = 1

\* C21: a token request that comes back empty ends a live batch run before
\* any listing is fetched and a single-target invocation before its vote and
\* its post, with the ledger file as it was; a dry run goes on to fetch
C21_MissingToken ==
    [][/\ (pc = "Token" /\ "no-token" \in Range(calls') /\ ~dry_run) =>
            /\ pc' = "Aborted"
            /\ outcome' = "Could not get modhash"
            /\ disk' = disk
            /\ "fetch" \notin Range(calls')
       /\ (pc = "Token" /\ "no-token" \in Range(calls') /\ dry_run) =>
            pc' = "Fetching"
       /\ (pc \in Terminal /\ pc' = pc /\ "no-token" \in Range(calls')) =>
            /\ outcome' = "Could not get modhash"
            /\ disk' = disk
            /\ "vote" \notin Range(calls')
            /\ "post" \notin Range(calls')]_vars

C21_Witness ==
    /\ pc = "Aborted"
    /\ outcome = "Could not get modhash"
    /\ calls = <<"login", "token", "no-token">>
    /\ disk.sessions # <<>>

C23_PartialFailure ==
    [][(/\ pc = "Acting"
        /\ idx < Len(candidates)
        /\ ~Complete(candidates[idx + 1]))
        => \/ pc' = "Acting"
           \/ /\ pc' = "Done"
              /\ IsPrefix(log.comments, disk'.comments)
              /\ Len(disk'.sessions) = Len(log.sessions) + 1]_vars

\* C24: an interrupt that arrives while a batch run is under way ends the
\* run only with the CommentRecords the run has appended so far written to
\* the ledger file
C24_Cancellation ==
    [][(pc \notin Terminal /\ outcome' = "KeyboardInterrupt") =>
            IsPrefix(log.comments, disk'.comments)]_vars

\* the requests and pauses among the entries of calls, without the notes
\* on how they went
IsRequest(x) == x \in {"login", "token", "vote", "pause", "post", "fetch", "probe"}

Asked(c) == SelectSeq(c, IsRequest)

\* C25: a single-target invocation that votes or posts has asked, in this
\* order, for the identity, the token, the vote, a pause and the post,
\* whether the vote went through or not, and both the identity request and
\* the token request succeeded
C25_SingleOrder ==
    [][(/\ pc \in Terminal
        /\ pc' = pc
        /\ "vote" \in Range(calls') \/ "post" \in Range(calls'))
        => /\ Asked(calls') = <<"login", "token", "vote", "pause", "post">>
           /\ ~NoDisplayName(info)
           /\ "no-token" \notin Range(calls')
           /\ "bad-token" \notin Range(calls')]_vars

\* C26: a single-target invocation whose post reports success appends to
\* the ledger file one CommentRecord of its target with status posted and
\* nothing else; one whose post reports failure, or whose answer cannot be
\* read, leaves the ledger file as it was; no SessionRecord is added either
\* way
C26_SingleLedgerEffect ==
    [][(pc \in Terminal /\ pc' = pc /\ "token" \in Range(calls')) =>
        /\ ("post" \in Range(calls') /\ "post-failed" \notin Range(calls')) =>
                disk' = AppendComment(disk,
                            CommentRecord(target', DateOf(now), "posted"))
        /\ ("post" \notin Range(calls') \/ "post-failed" \in Range(calls')) =>
                disk' = disk
        /\ disk'.sessions = disk.sessions]_vars

\* a post has succeeded on a ledger that held a record, after a vote that
\* failed
C26_Witness ==
    /\ pc \in Terminal
    /\ outcome = "Comment posted"
    /\ calls = <<"login", "token", "vote", "vote-failed", "pause", "post">>
    /\ Len(disk.comments) = 2
    /\ disk.comments[2] = CommentRecord(target, DateOf(now), "posted")

C28_HealthMapping ==
    (Len(calls) = 3 /\ calls[2] = "probe") =>
        Get(health, "shadowbanned", "none") =
            CASE calls[3] = "probe-404" -> "true"
              [] calls[3] = "probe-200" -> "false"
              [] OTHER -> "unknown"

\* C29: when the shadow-ban check of a logged-in identity comes back with
\* shadowbanned "unknown" or with an error payload, the message printed is
\* the could-not-determine warning, neither the detection nor the all-clear
C29_AmbiguousFlagged ==
    (/\ Len(calls) = 3
     /\ calls[2] = "probe"
     /\ Get(health, "shadowbanned", "unknown") = "unknown")
        => outcome = "Could not determine shadowban status"

\* C30: when the process dies while save_log is writing, the load_log that
\* comes after returns the whole ledger the file held before the save or
\* the whole ledger that was being saved
C30_NoTornLedger ==
    [][(pc = "Killed" /\ pc' # pc) =>
        /\ pc' = "Loaded"
        /\ log' \in {disk, log}]_vars

\* the classes a failed post is to be reported under; the first and the
\* third are the warnings the program prints
FailureClasses ==
    {"Rate limited by Reddit", "Rejected by Reddit", "CAPTCHA required",
     "Unknown failure"}

\* C31: a single-target post that failed is reported under one of the four
\* classes rate-limited, policy-rejected, CAPTCHA-required and unknown
C31_FailureClassified ==
    "post-failed" \in Range(calls) => outcome \in FailureClasses

\* the order of a batch run: the steps it may take from one position to
\* the next
Order ==
    {<<"Authenticating", "PolicyCheck">>, <<"Authenticating", "Aborted">>,
     <<"PolicyCheck", "Token">>, <<"PolicyCheck", "Aborted">>,
     <<"Token", "Fetching">>, <<"Token", "Aborted">>,
     <<"Fetching", "Acting">>, <<"Fetching", "Done">>,
     <<"Acting", "Done">>}

\* C32: a batch run moves forward through its positions only, ends in Done
\* or in Aborted, and writes the ledger file nowhere but in the step from
\* Acting to Done
C32_StateOrder ==
    [][InRun =>
        /\ pc' = pc \/ <<pc, pc'>> \in Order
        /\ disk' # disk => (pc = "Acting" /\ pc' = "Done")]_vars

\* none of the four drop conditions holds for a post: its id is not in the
\* ledger, its age is known and within the limit, its author is not an
\* excluded one, its score is known and within [1, 500]
Kept(post, l, t) ==
    /\ Get(post, "id", "") \notin LedgerIds(l)
    /\ "created_utc" \in DOMAIN post
    /\ t - post.created_utc <= MAX_POST_AGE_HOURS
    /\ ("author" \in DOMAIN post => post.author \notin {"[deleted]", "AutoModerator"})
    /\ "score" \in DOMAIN post
    /\ 1 <= post.score /\ post.score <= 500

\* C33: the filter returns the posts of its input for which no drop
\* condition holds, each as often as it was given and in the order given,
\* and leaves the ledger and its input as they were
C33_FilterExact ==
    [][(pc = "Idle" /\ pc' = "Filtered") =>
        /\ filtered' = SelectSeq(posts, LAMBDA post : Kept(post, disk, now))
        /\ disk' = disk
        /\ posts' = posts]_vars

\* two posts at the two ends of the score range were given and both are
\* kept, in their order
C33_Witness ==
    /\ pc = "Filtered"
    /\ Len(filtered) = 2
    /\ filtered = posts
    /\ filtered[1].score = 500
    /\ filtered[2].score = 1

\* C34: a batch run whose pool is empty when the scan is over ends there,
\* without entering Acting and with the ledger file as it was, so the
\* verdict of the rate limits on the ledger is what it was before
C34_ZeroEligible ==
    [][(pc = "Fetching" /\ subs = <<>> /\ all_posts = <<>>) =>
        /\ pc' = "Done"
        /\ outcome' = "No eligible posts found"
        /\ disk' = disk
        /\ check_rate_limits(disk', now') = check_rate_limits(disk, now)]_vars

\* two listings were scanned, nothing was eligible, and the ledger holds
\* no session
C34_Witness ==
    /\ pc = "Done"
    /\ outcome = "No eligible posts found"
    /\ Count("fetch", calls) = 2
    /\ disk.comments # <<>>
    /\ disk.sessions = <<>>

\* the calendar dates of the model
Dates == 0..(DateOf(MaxRunsClock) + 1)

\* C35: with batch runs one after another, no calendar date ever has more
\* than max-sessions-per-day SessionRecords in the ledger file
C35_SessionsPerDate ==
    \A d \in Dates : Cardinality(SessionsOn(disk, d)) <= MAX_SESSIONS_PER_DAY

\* a date holds two sessions and a third run on that date has been denied
C35_Witness ==
    /\ pc = "Aborted"
    /\ outcome = ReasonSessions
    /\ Cardinality(SessionsOn(disk, DateOf(now))) = MAX_SESSIONS_PER_DAY
    /\ \E k \in 1..Len(disk.sessions) : disk.sessions[k].dry_run

\* C36: with batch runs one after another, the timestamps of any two
\* SessionRecords of the ledger file lie at least
\* min-hours-between-sessions apart, whatever their dates
C36_SessionSpacing ==
    \A j, k \in 1..Len(disk.sessions) :
        j < k => disk.sessions[k].timestamp - disk.sessions[j].timestamp
                    >= MIN_HOURS_BETWEEN_SESSIONS

\* C38: every SessionRecord of the ledger file carries the calendar date of
\* its own timestamp
C38_SessionDate ==
    \A k \in 1..Len(disk.sessions) :
        disk.sessions[k].date = DateOf(disk.sessions[k].timestamp)

\* C37: no calendar date ever has more CommentRecords in the ledger file
\* than max-comments-per-session times max-sessions-per-day
C37_CommentsPerDate ==
    \A d \in Dates :
        Cardinality(CommentsOn(disk, d))
            <= MAX_COMMENTS_PER_SESSION * MAX_SESSIONS_PER_DAY

\* C39: a CommentRecord with status posted that is in the ledger file is
\* still in the ledger file after every later save
C39_NoLostUpdate ==
    [][\A k \in 1..Len(disk.comments) :
           disk.comments[k].status = "posted"
               => \E j \in 1..Len(disk'.comments) :
                      disk'.comments[j] = disk.comments[k]]_vars

\* C40: the candidates selected in one batch run have pairwise distinct ids
C40_DistinctTargets ==
    pc = "Acting"
        => \A i, j \in 1..Len(candidates) :
               i # j => candidates[i].id # candidates[j].id

=============================================================================
